---- MODULE Spec2Model ----
(***************************************************************************)
(* The token pipeline of the Scheme front end: the line source, the        *)
(* Buffer (buffer.py), the recursive-descent reader (scheme_reader.py) and *)
(* the Tokenizer (scheme_tokens.py).                                       *)
(*                                                                         *)
(* Tokens are strings.  The values the reader builds are tagged tuples:    *)
(* an atom token t is <<"Atom", t>>, Pair(f, s) is <<"Pair", f, s>> and    *)
(* Nil is <<"Nil">>.  None, the Buffer's end-of-input sentinel, is the     *)
(* string "None" (the tokenizer lower-cases identifiers, so no token has   *)
(* this spelling).                                                         *)
(***************************************************************************)
EXTENDS Integers, Sequences, FiniteSets, TLC

VARIABLES
    source,        \* the iterator handed to Buffer: data, pos, end, signalled, requeried
    index,         \* Buffer.index
    current_line,  \* Buffer.current_line
    op,            \* the last call made on the Buffer or the Tokenizer
    ret,           \* how that call ended: [sig |-> "return" | "raise", val |-> ...]
    pre,           \* the Buffer (the Tokenizer) as it was when that call started
    popped,        \* what the client's pop() calls returned, in order
    partial_string,  \* Tokenizer.partial_string
    input_data,    \* the lines handed to Tokenizer.tokenize_lines
    lineno         \* how many of them the map has taken

vars == <<source, index, current_line, op, ret, pre, popped,
          partial_string, input_data, lineno>>

----------------------------------------------------------------------------
\* Bounds of the model

MaxLines == 4      \* lines of a Buffer client's source
MaxLineLen == 2    \* tokens on one such line
MaxPops == 10      \* pop() calls recorded in one behaviour
MaxToks == 6       \* tokens of a reader's input on one line
MaxSplitToks == 4  \* tokens of a reader's input on two lines

None == "None"

\* The backquote punctuator is spelled "BACKQUOTE" here (the tokenizer
\* lower-cases identifiers, so no identifier token has this spelling).
BACKQUOTE == "BACKQUOTE"

----------------------------------------------------------------------------
\* The Tokenizer (scheme_tokens.py).  A text is a sequence of characters, a
\* character a string of length one (the backquote is BACKQUOTE).

NL == "\n"
BS == "\\"
DQ == "\""

LowerSeq == <<"a", "b", "c", "d", "e", "f", "g", "h", "i", "j", "k", "l", "m",
              "n", "o", "p", "q", "r", "s", "t", "u", "v", "w", "x", "y", "z">>
UpperSeq == <<"A", "B", "C", "D", "E", "F", "G", "H", "I", "J", "K", "L", "M",
              "N", "O", "P", "Q", "R", "S", "T", "U", "V", "W", "X", "Y", "Z">>
DigitSeq == <<"0", "1", "2", "3", "4", "5", "6", "7", "8", "9",
              "a", "b", "c", "d", "e", "f">>

Range(f) == {f[i] : i \in DOMAIN f}

IndexOf(f, c) == CHOOSE i \in DOMAIN f : f[i] = c

LowerCase == Range(LowerSeq)
UpperCase == Range(UpperSeq)

\* str.lower() and str.isalpha() on one character, lower() on a text
lower(c) == IF c \in UpperCase THEN LowerSeq[IndexOf(UpperSeq, c)] ELSE c

isalpha(c) == c \in LowerCase \cup UpperCase

Lower(t) == [i \in DOMAIN t |-> lower(t[i])]

WHITESPACE == {" ", "\t", NL, "\r"}
DELIMITERS == WHITESPACE \cup {"(", ")", DQ, ";"}

\* line[p: p+1] with positions counted from 1: the empty text past the end
At(t, p) == IF p \in DOMAIN t THEN t[p] ELSE ""

\* text[n:], the text after its first n characters
From(t, n) == SubSeq(t, n + 1, Len(t))

\* The number of characters from position p on that lie in S
RECURSIVE Run(_, _, _)
Run(t, p, S) == IF p \in DOMAIN t /\ t[p] \in S THEN 1 + Run(t, p + 1, S) ELSE 0

\* A pattern is an operator on the text it is matched against: the length
\* of the match at the start of the text, 0 for no match (no pattern of the
\* tokenizer matches the empty text).

\* STRING_CHARS*?" from position p: a backslash is consumed with the
\* backslash or quote after it and in no other way, every other character
\* alone; the first quote met closes.  Its position, 0 for none.
RECURSIVE StringClose(_, _)
StringClose(t, p) ==
    IF p > Len(t) THEN 0
    ELSE IF t[p] = DQ THEN p
    ELSE IF t[p] = BS
    THEN (IF At(t, p + 1) \in {BS, DQ} THEN StringClose(t, p + 2) ELSE 0)
    ELSE StringClose(t, p + 1)

RAW_STRING(t) == IF At(t, 1) = DQ THEN StringClose(t, 2) ELSE 0

STRING_END(t) == StringClose(t, 1)

\* STRING_CHARS*\n, greedy: the last newline the characters lead up to
RECURSIVE StringOpen(_, _, _)
StringOpen(t, p, last) ==
    IF p > Len(t) THEN last
    ELSE IF t[p] = BS
    THEN (IF At(t, p + 1) \in {BS, DQ} THEN StringOpen(t, p + 2, last) ELSE last)
    ELSE StringOpen(t, p + 1, IF t[p] = NL THEN p ELSE last)

STRING_START(t) == IF At(t, 1) = DQ THEN StringOpen(t, 2, 0) ELSE 0

\* STRING_ESCAPE.sub(r'\1', text): every backslash goes, the character after
\* it stays
RECURSIVE STRING_ESCAPE(_)
STRING_ESCAPE(t) ==
    IF t = <<>> THEN <<>>
    ELSE IF t[1] = BS /\ Len(t) >= 2 THEN <<t[2]>> \o STRING_ESCAPE(From(t, 2))
    ELSE <<t[1]>> \o STRING_ESCAPE(From(t, 1))

BOOLEAN_(t) == IF At(t, 1) = "#" /\ At(t, 2) \in {"t", "T", "f", "F"} THEN 2 ELSE 0

\* The letters of w, in either case, stand at position p of t
IsWord(t, p, w) ==
    /\ Len(t) >= p + Len(w) - 1
    /\ \A i \in DOMAIN w : lower(t[p + i - 1]) = w[i]

CHARACTER(t) ==
    IF At(t, 1) = "#" /\ At(t, 2) = BS
    THEN IF IsWord(t, 3, <<"s", "p", "a", "c", "e">>) THEN 7
         ELSE IF IsWord(t, 3, <<"n", "e", "w", "l", "i", "n", "e">>) THEN 9
         ELSE IF Len(t) >= 3 THEN 3 ELSE 0
    ELSE 0

INITIAL ==
    LowerCase \cup UpperCase
        \cup {"!", "$", "%", "&", "*", "/", ":", "<", "=", ">", "?", "^", "_", "~"}

SUBSEQUENT == INITIAL \cup Range(SubSeq(DigitSeq, 1, 10)) \cup {"+", "-", ".", "@"}

IDENTIFIER(t) ==
    IF At(t, 1) \in INITIAL THEN 1 + Run(t, 2, SUBSEQUENT)
    ELSE IF At(t, 1) \in {"+", "-"} THEN 1
    ELSE IF At(t, 1) = "." /\ At(t, 2) = "." /\ At(t, 3) = "." THEN 3
    ELSE 0

PUNCTUATOR(t) ==
    IF At(t, 1) = "#" /\ At(t, 2) = "(" THEN 2
    ELSE IF At(t, 1) = "," /\ At(t, 2) = "@" THEN 2
    ELSE IF At(t, 1) \in {"(", ")", "'", BACKQUOTE, ",", "."} THEN 1
    ELSE 0

\* ;.* where . is every character but the newline
RECURSIVE ToNewline(_, _)
ToNewline(t, p) == IF p \in DOMAIN t /\ t[p] # NL THEN 1 + ToNewline(t, p + 1) ELSE 0

COMMENT(t) == IF At(t, 1) = ";" THEN 1 + ToNewline(t, 2) ELSE 0

----------------------------------------------------------------------------
\* Numbers: the NUMBER pattern and process_number

\* The digits of a radix ([01], [0-7], [0-9], [0-9a-fA-F])
Digits(radix) ==
    {c \in Range(DigitSeq) \cup UpperCase :
        lower(c) \in Range(SubSeq(DigitSeq, 1, radix))}

UINTEGER_2 == Digits(2)
UINTEGER_8 == Digits(8)
UINTEGER_10 == Digits(10)
UINTEGER_16 == Digits(16)

DigitsOf(radix) ==
    CASE radix = 2 -> UINTEGER_2
      [] radix = 8 -> UINTEGER_8
      [] radix = 10 -> UINTEGER_10
      [] radix = 16 -> UINTEGER_16

EXPONENT_MARKER == {c \in LowerCase \cup UpperCase :
                        lower(c) \in {"e", "s", "f", "d", "l"}}

SIGN(t, p) == IF At(t, p) \in {"+", "-"} THEN 1 ELSE 0

\* The parts of the patterns below are matched at position p of t and give
\* the position after the match, 0 for no match; a part tried at position 0,
\* after a part that did not match, does not match.
\* S* , S+ and one character of S
Star(t, p, S) == IF p = 0 THEN 0 ELSE p + Run(t, p, S)

Plus(t, p, S) == IF p # 0 /\ At(t, p) \in S THEN p + Run(t, p, S) ELSE 0

One(t, p, S) == IF p # 0 /\ At(t, p) \in S THEN p + 1 ELSE 0

\* (...)? tried at p with the result q, and a | b with the results a and b
Maybe(p, q) == IF q # 0 THEN q ELSE p

Either(a, b) == IF a # 0 THEN a ELSE b

SUFFIX(t, p) ==
    LET digits(q) == Plus(t, q + SIGN(t, q), UINTEGER_10) IN
    Maybe(p, digits(One(t, p, EXPONENT_MARKER)))

UINTEGER(t, p, radix) == Star(t, Plus(t, p, DigitsOf(radix)), {"#"})

\* The four alternatives of DECIMAL_10, in their order
DECIMAL_10(t, p) ==
    Either(SUFFIX(t, Star(t, Plus(t, One(t, p, {"."}), UINTEGER_10), {"#"})),
    Either(SUFFIX(t, Star(t, Star(t, One(t, Plus(t, p, UINTEGER_10), {"."}),
                                UINTEGER_10), {"#"})),
    Either(SUFFIX(t, Star(t, One(t, Plus(t, Plus(t, p, UINTEGER_10), {"#"}), {"."}),
                         {"#"})),
           SUFFIX(t, UINTEGER(t, p, 10)))))

\* UREAL_2, UREAL_8, UREAL_10, UREAL_16
UREAL(t, p, radix) ==
    Either(UINTEGER(t, One(t, UINTEGER(t, p, radix), {"/"}), radix),
           IF radix = 10 THEN DECIMAL_10(t, p) ELSE UINTEGER(t, p, radix))

REAL(t, p, radix) == UREAL(t, p + SIGN(t, p), radix)

RADIX_MAP == [b |-> 2, o |-> 8, d |-> 10, x |-> 16]

\* #[bBoOdDxX] and EXACTNESS stand at position p of t
RadixAt(t, p) == At(t, p) = "#" /\ lower(At(t, p + 1)) \in DOMAIN RADIX_MAP

ExactnessAt(t, p) == At(t, p) = "#" /\ lower(At(t, p + 1)) \in {"e", "i"}

\* PREFIX_2 .. PREFIX_16 and the regex PREFIX: a radix mark, an exactness
\* mark, both in either order, or none (then radix 10, as PREFIX_10 allows)
PREFIX(t) ==
    IF RadixAt(t, 1) THEN (IF ExactnessAt(t, 3) THEN 4 ELSE 2)
    ELSE IF ExactnessAt(t, 1) THEN (IF RadixAt(t, 3) THEN 4 ELSE 2)
    ELSE 0

\* RADIX.match on the prefix, its exactness marks taken out
RADIX(prefix) ==
    IF \E p \in DOMAIN prefix : RadixAt(prefix, p)
    THEN RADIX_MAP[lower(prefix[1 + CHOOSE p \in DOMAIN prefix : RadixAt(prefix, p)])]
    ELSE 10

\* NUMBER: the prefix of a radix, then COMPLEX of that radix.  Of COMPLEX
\* only the alternative REAL is modelled: the three others need an @ or a
\* sign followed by i, which the texts tokenized here do not hold.
NUMBER(t) ==
    Maybe(1, REAL(t, PREFIX(t) + 1, RADIX(SubSeq(t, 1, PREFIX(t))))) - 1

\* Number values.  An int n is Integer(n).  A Fraction and a float are
\* num/den * 10^exp: num/den in lowest terms with exp = 0 when they come from
\* a quotient of integers, den = 1 and num no multiple of 10 when they come
\* from a decimal text.  An exception raised by the conversion is its name.
RECURSIVE GCD(_, _)
GCD(a, b) == IF b = 0 THEN a ELSE GCD(b, a % b)

Abs(n) == IF n < 0 THEN 0 - n ELSE n

Integer(n) == [kind |-> "int", num |-> n, den |-> 1, exp |-> 0]

Quotient(kind, n, d) ==
    LET g == GCD(Abs(n), d) IN
    [kind |-> kind, num |-> n \div g, den |-> d \div g, exp |-> 0]

RECURSIVE Decimal(_, _, _)
Decimal(kind, n, e) ==
    IF n = 0 THEN [kind |-> kind, num |-> 0, den |-> 1, exp |-> 0]
    ELSE IF n % 10 = 0 THEN Decimal(kind, n \div 10, e + 1)
    ELSE [kind |-> kind, num |-> n, den |-> 1, exp |-> e]

ValueError == [kind |-> "ValueError"]
ZeroDivisionError == [kind |-> "ZeroDivisionError"]

\* The value of the digits t[p .. p+n-1] in a radix
RECURSIVE DigitsValue(_, _, _, _)
DigitsValue(t, p, n, radix) ==
    IF n = 0 THEN 0
    ELSE DigitsValue(t, p, n - 1, radix) * radix + (IndexOf(DigitSeq, lower(t[p + n - 1])) - 1)

\* int(text, radix): a sign and digits of the radix, ValueError otherwise
int(t, radix) ==
    LET value(s, d) ==
            IF d > 0 /\ s + d = Len(t)
            THEN Integer((IF At(t, 1) = "-" THEN -1 ELSE 1)
                             * DigitsValue(t, s + 1, d, radix))
            ELSE ValueError IN
    value(SIGN(t, 1), Run(t, SIGN(t, 1) + 1, DigitsOf(radix)))

\* float(text) and Fraction(text) on a decimal text: sign, digits with a
\* point before, within or after them, and an exponent e with its sign and
\* digits; ValueError otherwise.  The digits stand at a .. b - 1, the point
\* and the digits after it at b .. c - 1, the digits of the exponent at
\* y .. z - 1 (y = 0 without an e, z = 0 without digits after it).
FromDecimal(kind, t) ==
    LET digits == Star(t, 1 + SIGN(t, 1), UINTEGER_10)
        fraction(b) == Maybe(b, Star(t, One(t, b, {"."}), UINTEGER_10))
        exponent(c) == One(t, c, {"e"}) + SIGN(t, One(t, c, {"e"}))
        value(a, b, c, y, z) ==
            LET f == IF c > b THEN c - b - 1 ELSE 0
                mant == DigitsValue(t, a, b - a, 10) * 10^f
                            + DigitsValue(t, b + 1, f, 10)
                ex == (IF At(t, c + 1) = "-" THEN -1 ELSE 1)
                          * DigitsValue(t, y, z - y, 10) IN
            IF /\ (b - a) + f > 0
               /\ y # 0 => z # 0
               /\ (IF y # 0 THEN z ELSE c) = Len(t) + 1
            THEN Decimal(kind, (IF At(t, 1) = "-" THEN -1 ELSE 1) * mant,
                         ex - f)
            ELSE ValueError IN
    value(1 + SIGN(t, 1), digits, fraction(digits), exponent(fraction(digits)),
          Plus(t, exponent(fraction(digits)), UINTEGER_10))

\* text.replace('#', '0') and EXPONENT.sub('e', text)
ReplaceHash(t) == [i \in DOMAIN t |-> IF t[i] = "#" THEN "0" ELSE t[i]]

EXPONENT(t) == [i \in DOMAIN t |-> IF t[i] \in {"e", "s", "d", "f", "l"} THEN "e" ELSE t[i]]

\* process_rational(token_text, radix, inexact)
process_rational(t, radix, inexact) ==
    LET exactness(value) ==
            IF inexact THEN [value EXCEPT !.kind = "float"]
            ELSE IF value.den = 1 THEN Integer(value.num)
            ELSE value
        quotient(num, den) ==
            IF num = ValueError \/ den = ValueError THEN ValueError
            ELSE IF den.num = 0 THEN ZeroDivisionError
            ELSE exactness(Quotient("Fraction",
                                    (IF den.num < 0 THEN -1 ELSE 1) * num.num,
                                    Abs(den.num)))
        integer(value) ==
            IF value = ValueError THEN ValueError
            ELSE IF inexact THEN Decimal("float", value.num, 0)
            ELSE value IN
    IF "/" \in Range(t)
    THEN LET k == CHOOSE i \in DOMAIN t : t[i] = "/" IN
         quotient(int(SubSeq(t, 1, k - 1), radix), int(From(t, k), radix))
    ELSE integer(int(t, radix))

\* process_number on the lowered text, split in its prefix and the rest with
\* every # of the rest replaced by 0
convert(prefix, text) ==
    IF "." \in Range(text) \/ "e" \in Range(text)
    THEN FromDecimal(IF \E p \in DOMAIN prefix :
                            prefix[p] = "#" /\ At(prefix, p + 1) = "e"
                     THEN "Fraction" ELSE "float",
                     EXPONENT(text))
    ELSE process_rational(text, RADIX(prefix),
                          \E p \in DOMAIN prefix :
                              prefix[p] = "#" /\ At(prefix, p + 1) = "i")

\* process_number(token_text), for a text without i and @ (the branches for
\* complex numbers and polar notation are not modelled)
process_number(token_text) ==
    LET split(lowered, n) ==
            convert(SubSeq(lowered, 1, n), ReplaceHash(From(lowered, n))) IN
    split(Lower(token_text), PREFIX(Lower(token_text)))

----------------------------------------------------------------------------
\* The Tokenizer.  A token that is a Python str is Str(text), a boolean is
\* Bool(b), a number is its number value.

Str(text) == [kind |-> "str", text |-> text]
Bool(b) == [kind |-> "bool", val |-> b]

\* Token precedence order
TOKEN_PATTERNS ==
    <<"RAW_STRING", "STRING_START", "BOOLEAN", "CHARACTER",
      "NUMBER", "IDENTIFIER", "PUNCTUATOR", "COMMENT">>

\* pattern.match(text): the length of the match, 0 for None
Match(pattern, text) ==
    CASE pattern = "RAW_STRING" -> RAW_STRING(text)
      [] pattern = "STRING_START" -> STRING_START(text)
      [] pattern = "BOOLEAN" -> BOOLEAN_(text)
      [] pattern = "CHARACTER" -> CHARACTER(text)
      [] pattern = "NUMBER" -> NUMBER(text)
      [] pattern = "IDENTIFIER" -> IDENTIFIER(text)
      [] pattern = "PUNCTUATOR" -> PUNCTUATOR(text)
      [] pattern = "COMMENT" -> COMMENT(text)

\* A check_termination that asks a delimiter after the character literals of
\* several characters, and none after those of one letter
check_termination_long(token_text, pattern, next_char) ==
    IF pattern \in {"IDENTIFIER", "NUMBER"} THEN next_char \notin DELIMITERS
    ELSE IF pattern = "CHARACTER"
    THEN Len(token_text) > 3 /\ next_char \notin DELIMITERS
    ELSE IF pattern = "PUNCTUATOR"
    THEN token_text = <<".">> /\ next_char \notin DELIMITERS
    ELSE FALSE

\* check_termination(token_text, pattern, next_char): TRUE when it prints
\* the warning.  It returns nothing and raises nothing.
check_termination(token_text, pattern, next_char) ==
    IF pattern \in {"IDENTIFIER", "NUMBER"} THEN next_char \notin DELIMITERS
    ELSE IF pattern = "CHARACTER"
    THEN Len(token_text) = 3 /\ isalpha(token_text[3]) /\ next_char \notin DELIMITERS
    ELSE IF pattern = "PUNCTUATOR"
    THEN token_text = <<".">> /\ next_char \notin DELIMITERS
    ELSE FALSE

\* A _process_token that gives the text of an unterminated string as a token
process_token_string_start(token_text, pattern) ==
    CASE pattern = "RAW_STRING" -> Str(STRING_ESCAPE(token_text))
      [] pattern = "STRING_START" -> Str(token_text)
      [] pattern = "BOOLEAN" -> Bool(Lower(token_text) = <<"#", "t">>)
      [] pattern = "CHARACTER" ->
            Str(IF Len(token_text) > 3 THEN Lower(token_text) ELSE token_text)
      [] pattern = "NUMBER" -> process_number(token_text)
      [] pattern = "IDENTIFIER" -> Str(Lower(token_text))
      [] pattern = "COMMENT" -> Str(<<>>)
      [] OTHER -> Str(token_text)

\* Tokenizer._process_token(token_text, pattern), but for the assignment to
\* partial_string, which _next_token below makes
process_token(token_text, pattern) ==
    CASE pattern = "RAW_STRING" -> Str(STRING_ESCAPE(token_text))
      [] pattern = "STRING_START" -> Str(<<>>)
      [] pattern = "BOOLEAN" -> Bool(Lower(token_text) = <<"#", "t">>)
      [] pattern = "CHARACTER" ->
            Str(IF Len(token_text) > 3 THEN Lower(token_text) ELSE token_text)
      [] pattern = "NUMBER" -> process_number(token_text)
      [] pattern = "IDENTIFIER" -> Str(Lower(token_text))
      [] pattern = "COMMENT" -> Str(<<>>)
      [] OTHER -> Str(token_text)

\* for pattern in TOKEN_PATTERNS: the first pattern that matches the text,
\* "" when none does
matching(text) ==
    LET first(S) ==
            IF S = {} THEN ""
            ELSE TOKEN_PATTERNS[CHOOSE k \in S : \A j \in S : k <= j] IN
    first({k \in DOMAIN TOKEN_PATTERNS : Match(TOKEN_PATTERNS[k], text) > 0})

\* The body of `if match:` for the text group that pattern matched at
\* position (counted from 0) of line
matched(line, position, pattern, group) ==
    LET return(token, end) ==
            IF token.kind \in {"ValueError", "ZeroDivisionError"}
            THEN [sig |-> "raise", val |-> token.kind, text |-> <<>>,
                  partial_string |-> None]
            ELSE [sig |-> "return", token |-> token, position |-> end,
                  partial_string |-> IF pattern = "STRING_START" THEN group ELSE None,
                  warned |-> IF check_termination(group, pattern, At(line, end + 1))
                             THEN <<[token |-> group, next_char |-> At(line, end + 1),
                                     position |-> end]>>
                             ELSE <<>>] IN
    return(process_token(group, pattern), position + Len(group))

\* _next_token from the position the whitespace ends at
scan(line, position) ==
    LET attempt(text, pattern) ==
            IF pattern = ""
            THEN [sig |-> "raise", val |-> "SyntaxError", text |-> text,
                  partial_string |-> None]
            ELSE matched(line, position, pattern,
                         SubSeq(text, 1, Match(pattern, text))) IN
    IF position = Len(line)
    THEN [sig |-> "return", token |-> Str(<<>>), position |-> position,
          partial_string |-> None, warned |-> <<>>]
    ELSE attempt(From(line, position), matching(From(line, position)))

\* Tokenizer._next_token(line, position) in a tokenizer whose partial_string
\* is ps; position counts from 0.  The outcome: the token and the position
\* after it, the new partial_string, and the warning printed, if any (the
\* token and the character named in it, and the position of that
\* character); or the exception raised, a SyntaxError with the text it
\* carries.
next_token(ps, line, position) ==
    IF ps # None
    THEN IF position # 0
         THEN [sig |-> "raise", val |-> "AssertionError", text |-> <<>>,
               partial_string |-> ps]
         ELSE IF STRING_END(line) > 0
         THEN [sig |-> "return",
               token |-> process_token(ps \o SubSeq(line, 1, STRING_END(line)),
                                       "RAW_STRING"),
               position |-> STRING_END(line), partial_string |-> None,
               warned |-> <<>>]
         ELSE [sig |-> "return", token |-> Str(<<>>), position |-> Len(line),
               partial_string |-> ps \o line, warned |-> <<>>]
    ELSE scan(line, position + Run(line, position + 1, WHITESPACE))

\* A loop that ends the line at a text no pattern matches
RECURSIVE NextTokensLenient(_, _, _, _, _)
NextTokensLenient(ps, line, i, result, warnings) ==
    LET r == next_token(ps, line, i) IN
    IF r.sig = "raise" \/ r.token = Str(<<>>)
    THEN [sig |-> "return", val |-> result, text |-> <<>>,
          partial_string |-> r.partial_string,
          warnings |-> IF r.sig = "raise" THEN warnings ELSE warnings \o r.warned]
    ELSE NextTokensLenient(r.partial_string, line, r.position,
                           Append(result, r.token), warnings \o r.warned)

\* A loop in which an undelimited token is an error
RECURSIVE NextTokensStrict(_, _, _, _, _)
NextTokensStrict(ps, line, i, result, warnings) ==
    LET r == next_token(ps, line, i) IN
    IF r.sig = "raise"
    THEN [sig |-> "raise", val |-> r.val, text |-> r.text,
          partial_string |-> r.partial_string, warnings |-> warnings]
    ELSE IF r.warned # <<>>
    THEN [sig |-> "raise", val |-> "SyntaxError", text |-> From(line, r.position),
          partial_string |-> r.partial_string, warnings |-> warnings \o r.warned]
    ELSE IF r.token = Str(<<>>)
    THEN [sig |-> "return", val |-> result, text |-> <<>>,
          partial_string |-> r.partial_string, warnings |-> warnings]
    ELSE NextTokensStrict(r.partial_string, line, r.position,
                          Append(result, r.token), warnings)

\* The loop of tokenize_line: tokens are appended to result until
\* _next_token returns the empty string
RECURSIVE NextTokens(_, _, _, _, _)
NextTokens(ps, line, i, result, warnings) ==
    LET loop(r) ==
            IF r.sig = "raise"
            THEN [sig |-> "raise", val |-> r.val, text |-> r.text,
                  partial_string |-> r.partial_string, warnings |-> warnings]
            ELSE IF r.token = Str(<<>>)
            THEN [sig |-> "return", val |-> result, text |-> <<>>,
                  partial_string |-> r.partial_string,
                  warnings |-> warnings \o r.warned]
            ELSE NextTokens(r.partial_string, line, r.position,
                            Append(result, r.token), warnings \o r.warned) IN
    loop(next_token(ps, line, i))

\* A tokenize_line that scans the line as it is given
tokenize_line_as_given(ps, line) == NextTokens(ps, line, 0, <<>>, <<>>)

\* Tokenizer.tokenize_line(line) in a tokenizer whose partial_string is ps
tokenize_line(ps, line) ==
    NextTokens(ps, IF At(line, Len(line)) # NL THEN line \o <<NL>> ELSE line,
               0, <<>>, <<>>)

----------------------------------------------------------------------------
\* The source: an iterator over token lines

\* next() on tokenize_lines(input_data), the map of tokenize_line over the
\* lines of text s.data, s.tokenizer being the tokenizer's partial_string:
\* one line is taken and tokenized; an exception of tokenize_line comes out
\* of next().
tokenize_lines(s) ==
    LET taken(r) ==
            [sig |-> IF r.sig = "return" THEN "line" ELSE r.val,
             line |-> IF r.sig = "return" THEN r.val ELSE <<>>,
             source |-> [s EXCEPT !.pos = @ + 1, !.tokenizer = r.partial_string]] IN
    taken(tokenize_line(s.tokenizer, s.data[s.pos + 1]))

\* A next() that has the map take the line after the one it tokenizes, too
next_read_ahead(s) ==
    IF s.pos < Len(s.data)
    THEN IF "tokenizer" \in DOMAIN s
         THEN LET r == tokenize_lines(s) IN
              [r EXCEPT !.source.pos = IF @ < Len(s.data) THEN @ + 1 ELSE @]
         ELSE [sig |-> "line", line |-> s.data[s.pos + 1],
               source |-> [s EXCEPT !.pos = @ + 1]]
    ELSE IF s.end = "EOFError" /\ ~s.signalled
    THEN [sig |-> "EOFError", line |-> <<>>,
          source |-> [s EXCEPT !.signalled = TRUE]]
    ELSE [sig |-> "StopIteration", line |-> <<>>,
          source |-> [s EXCEPT !.signalled = TRUE, !.requeried = s.signalled]]

\* next(self.source).  A list iterator (iter([...]), map over a list) answers
\* StopIteration at the end, every time.  make_line_reader raises EOFError
\* after its last line; a generator that raised is finished, and answers
\* StopIteration from then on.  signalled and requeried log the calls: the
\* source has signalled its end, and it was queried again after that.  A
\* source with a tokenizer is tokenize_lines over lines of text.
next(s) ==
    IF s.pos < Len(s.data)
    THEN IF "tokenizer" \in DOMAIN s
         THEN tokenize_lines(s)
         ELSE [sig |-> "line", line |-> s.data[s.pos + 1],
               source |-> [s EXCEPT !.pos = @ + 1]]
    ELSE IF s.end = "EOFError" /\ ~s.signalled
    THEN [sig |-> "EOFError", line |-> <<>>,
          source |-> [s EXCEPT !.signalled = TRUE]]
    ELSE [sig |-> "StopIteration", line |-> <<>>,
          source |-> [s EXCEPT !.signalled = TRUE, !.requeried = s.signalled]]

----------------------------------------------------------------------------
\* Buffer

Buf == [index |-> index, current_line |-> current_line, source |-> source]

more_on_line(b) == b.index < Len(b.current_line)

RECURSIVE current(_)

\* A current() whose loop is an if: it pulls one line at most, and finds
\* nothing at the cursor when that line is empty.
current_one_line(b) ==
    IF more_on_line(b)
    THEN [b |-> b, sig |-> "return", val |-> b.current_line[b.index + 1]]
    ELSE LET r == next(b.source) IN
         CASE r.sig = "line" ->
                [b |-> [index |-> 0, current_line |-> r.line, source |-> r.source],
                 sig |-> "return",
                 val |-> IF r.line = <<>> THEN None ELSE r.line[1]]
           [] r.sig = "StopIteration" ->
                [b |-> [index |-> 0, current_line |-> <<>>, source |-> r.source],
                 sig |-> "return", val |-> None]
           [] OTHER ->
                [b |-> [index |-> 0, current_line |-> b.current_line,
                        source |-> r.source],
                 sig |-> "raise", val |-> r.sig]

\* A current() that moves the cursor past the token it returns
RECURSIVE current_consuming(_)
current_consuming(b) ==
    IF more_on_line(b)
    THEN [b |-> [b EXCEPT !.index = @ + 1], sig |-> "return",
          val |-> b.current_line[b.index + 1]]
    ELSE LET r == next(b.source) IN
         CASE r.sig = "line" ->
                current_consuming([index |-> 0, current_line |-> r.line,
                                   source |-> r.source])
           [] r.sig = "StopIteration" ->
                [b |-> [index |-> 0, current_line |-> <<>>, source |-> r.source],
                 sig |-> "return", val |-> None]
           [] OTHER ->
                [b |-> [index |-> 0, current_line |-> b.current_line,
                        source |-> r.source],
                 sig |-> "raise", val |-> r.sig]

\* Buffer.current: the loop pulls lines until one has a token at the cursor.
\* An exception other than StopIteration leaves the loop after index = 0.
current(b) ==
    LET pulled(r) ==
            CASE r.sig = "line" ->
                   current([index |-> 0, current_line |-> r.line,
                            source |-> r.source])
              [] r.sig = "StopIteration" ->
                   [b |-> [index |-> 0, current_line |-> <<>>, source |-> r.source],
                    sig |-> "return", val |-> None]
              [] OTHER ->
                   [b |-> [index |-> 0, current_line |-> b.current_line,
                           source |-> r.source],
                    sig |-> "raise", val |-> r.sig] IN
    IF more_on_line(b)
    THEN [b |-> b, sig |-> "return", val |-> b.current_line[b.index + 1]]
    ELSE pulled(next(b.source))

\* A pop() that forgets to move the cursor
pop_keeps_cursor(b) ==
    LET c == current(b) IN
    IF c.sig = "raise" THEN c
    ELSE [b |-> c.b, sig |-> "return", val |-> c.val]

\* Buffer.pop
pop(b) ==
    LET moved(c) ==
            IF c.sig = "raise" THEN c
            ELSE [b |-> [c.b EXCEPT !.index = @ + 1], sig |-> "return",
                  val |-> c.val] IN
    moved(current(b))

\* Buffer.__init__ before its call of current()
Buffer(src) == [index |-> 0, current_line |-> <<>>, source |-> src]

----------------------------------------------------------------------------
\* Reader

PUNCTUATORS == {"(", ")", "'", BACKQUOTE, ",", ".", ",@", "#("}

QUOTES == [q \in {"'", BACKQUOTE, ",", ",@"} |->
             CASE q = "'" -> "quote"
               [] q = BACKQUOTE -> "quasiquote"
               [] q = "," -> "unquote"
               [] q = ",@" -> "unquote-splicing"]

Atom(t) == <<"Atom", t>>
Pair(first, second) == <<"Pair", first, second>>
Nil == <<"Nil">>

Raise(b, e) == [b |-> b, sig |-> "raise", val |-> e]
Return(b, v) == [b |-> b, sig |-> "return", val |-> v]

\* except EOFError: raise SyntaxError('unexpected end of file')
ExceptEOFError(r) ==
    IF r.sig = "raise" /\ r.val = "EOFError" THEN Raise(r.b, "SyntaxError") ELSE r

RECURSIVE scheme_read(_), read_tail(_, _)

\* A scheme_read that takes '.' for an ordinary token
scheme_read_dot_token(b) ==
    LET c == current(b) IN
    IF c.sig = "raise" THEN Raise(c.b, c.val)
    ELSE IF c.val = None THEN Raise(c.b, "EOFError")
    ELSE LET p == pop(c.b)
             val == p.val IN
         IF val \notin PUNCTUATORS \ {"."} THEN Return(p.b, Atom(val))
         ELSE IF val = "(" THEN read_tail(p.b, 0)
         ELSE Raise(p.b, "SyntaxError")

\* A scheme_read that reads #( as it reads (
scheme_read_vector(b) ==
    LET c == current(b) IN
    IF c.sig = "raise" THEN Raise(c.b, c.val)
    ELSE IF c.val = None THEN Raise(c.b, "EOFError")
    ELSE LET p == pop(c.b) IN
         IF p.val \notin PUNCTUATORS THEN Return(p.b, Atom(p.val))
         ELSE IF p.val \in {"(", "#("} THEN read_tail(p.b, 0)
         ELSE Raise(p.b, "SyntaxError")

\* A read_tail that looks for the rest of the list on the current line only
read_tail_same_line(b, item_count) ==
    IF ~more_on_line(b) THEN Raise(b, "SyntaxError")
    ELSE LET d == current(b) IN
         IF d.val = ")" THEN Return(pop(d.b).b, Nil)
         ELSE LET first == scheme_read(d.b) IN
              IF first.sig = "raise" THEN ExceptEOFError(first)
              ELSE LET rest == read_tail(first.b, item_count + 1) IN
                   IF rest.sig = "raise" THEN ExceptEOFError(rest)
                   ELSE Return(rest.b, Pair(first.val, rest.val))

\* scheme_read(src).  The branch for a token in QUOTES is only pass: control
\* falls through to the test for '(' and then to the raise.
scheme_read(b) ==
    LET token(p) ==
            IF p.val \notin PUNCTUATORS THEN Return(p.b, Atom(p.val))
            ELSE IF p.val = "(" THEN read_tail(p.b, 0)
            ELSE Raise(p.b, "SyntaxError")
        start(c) ==
            IF c.sig = "raise" THEN Raise(c.b, c.val)
            ELSE IF c.val = None THEN Raise(c.b, "EOFError")
            ELSE token(pop(c.b)) IN
    start(current(b))

\* read_tail(src, item_count).  Between the test for ')' and the read of the
\* next element the source has no code (no branch for '.'), so a '.' goes to
\* scheme_read like any other token.
read_tail(b, item_count) ==
    LET joined(first, rest) ==
            IF rest.sig = "raise" THEN ExceptEOFError(rest)
            ELSE Return(rest.b, Pair(first.val, rest.val))
        element(first) ==
            IF first.sig = "raise" THEN ExceptEOFError(first)
            ELSE joined(first, read_tail(first.b, item_count + 1))
        token(d) ==
            IF d.val = ")" THEN Return(pop(d.b).b, Nil)
            ELSE element(scheme_read(d.b))
        start(c) ==
            IF c.sig = "raise" THEN ExceptEOFError(Raise(c.b, c.val))
            ELSE IF c.val = None THEN Raise(c.b, "SyntaxError")
            ELSE token(current(c.b)) IN
    start(current(b))

----------------------------------------------------------------------------
\* Inputs of a Buffer client: every shape of at most MaxLines lines with at
\* most MaxLineLen tokens each; the k-th token of the input is the numeral
\* k, so that every token is told apart from every other.

RECURSIVE Sum(_, _)
Sum(f, n) == IF n = 0 THEN 0 ELSE f[n] + Sum(f, n - 1)

TokenLines(shape, n) ==
    [i \in 1..n |-> [j \in 1..shape[i] |-> ToString(Sum(shape, i - 1) + j)]]

Ends == {"StopIteration", "EOFError"}

Source(data, end) ==
    [data |-> data, pos |-> 0, end |-> end,
     signalled |-> FALSE, requeried |-> FALSE]

\* Buffer(source): the constructor ends with a call of current().  When that
\* call raises, no Buffer exists.
Construct(src) ==
    LET built(c) ==
            /\ c.sig = "return"
            /\ source = c.b.source
            /\ index = c.b.index
            /\ current_line = c.b.current_line
            /\ op = "__init__"
            /\ ret = [sig |-> c.sig, val |-> c.val]
            /\ pre = Buffer(src)
            /\ popped = <<>>
            /\ partial_string = None
            /\ lineno = 0 IN
    built(current(Buffer(src)))

Init ==
    /\ \E n \in 0..MaxLines : \E shape \in [1..n -> 0..MaxLineLen] : \E end \in Ends :
           Construct(Source(TokenLines(shape, n), end))
    /\ input_data = <<>>

\* A call on the Buffer has ended as r says
Called(name, r) ==
    /\ source' = r.b.source
    /\ index' = r.b.index
    /\ current_line' = r.b.current_line
    /\ op' = name
    /\ ret' = [sig |-> r.sig, val |-> r.val]
    /\ pre' = Buf
    /\ UNCHANGED <<partial_string, input_data, lineno>>

Pop ==
    /\ Len(popped) < MaxPops
    /\ LET called(r) ==
               /\ Called("pop", r)
               /\ popped' = IF r.sig = "return" THEN Append(popped, r.val)
                            ELSE popped IN
       called(pop(Buf))

Current ==
    /\ Called("current", current(Buf))
    /\ UNCHANGED popped

MoreOnLine ==
    /\ Called("more_on_line", [b |-> Buf, sig |-> "return", val |-> more_on_line(Buf)])
    /\ UNCHANGED popped

Next == Pop \/ Current \/ MoreOnLine

Spec == Init /\ [][Next]_vars

----------------------------------------------------------------------------
\* Inputs of a reader: every token sequence of at most MaxToks tokens on one
\* line, and every token sequence of at most MaxSplitToks tokens cut into two
\* lines at any place (an empty line included), with or without an empty
\* line between the two.

Tokens == {"(", ")", ".", "'", "a"}

Streams(n) == UNION {[1..k -> Tokens] : k \in 0..n}

SplitLines(toks) ==
    {<<SubSeq(toks, 1, c), SubSeq(toks, c + 1, Len(toks))>> : c \in 0..Len(toks)}
        \cup {<<SubSeq(toks, 1, c), <<>>, SubSeq(toks, c + 1, Len(toks))>> :
                c \in 0..Len(toks)}
        \cup (IF toks = <<>> THEN {<<>>} ELSE {})

InitRead ==
    /\ \/ \E toks \in Streams(MaxToks) : \E end \in Ends :
              Construct(Source(<<toks>>, end))
       \/ \E toks \in Streams(MaxSplitToks) : \E data \in SplitLines(toks) :
              \E end \in Ends : Construct(Source(data, end))
    /\ input_data = <<>>

\* The calls of read_line, the doctests and the drivers: scheme_read(src),
\* and src.current() (next_line in run_tests).
SchemeRead ==
    /\ Called("scheme_read", scheme_read(Buf))
    /\ UNCHANGED popped

NextRead == SchemeRead \/ Current

SpecRead == InitRead /\ [][NextRead]_vars

----------------------------------------------------------------------------
\* What a Buffer still has to deliver: the rest of its current line, then the
\* lines its source has not yet handed out.

RECURSIVE Flatten(_)
Flatten(ls) == IF ls = <<>> THEN <<>> ELSE Head(ls) \o Flatten(Tail(ls))

Remaining(b) ==
    SubSeq(b.current_line, b.index + 1, Len(b.current_line))
        \o Flatten(SubSeq(b.source.data, b.source.pos + 1, Len(b.source.data)))

First(toks) == IF toks = <<>> THEN None ELSE Head(toks)

AllTokens == Flatten(source.data)

\* The first non-empty line after line p, or 0 when there is none
NextNonEmpty(data, p) ==
    LET later == {k \in (p + 1)..Len(data) : data[k] # <<>>} IN
    IF later = {} THEN 0 ELSE CHOOSE k \in later : \A m \in later : k <= m

----------------------------------------------------------------------------
\* Buffer claims

\* C1: over a source that ends by normal exhaustion (StopIteration), the
\* values returned by successive pop() calls are the tokens of the lines,
\* concatenated in order, each once, and None for every pop() after the last.
C1_PopSequence ==
    source.end = "StopIteration" =>
        \A i \in 1..Len(popped) :
            popped[i] = IF i <= Len(AllTokens) THEN AllTokens[i] ELSE None

\* C1 witness: three lines or more with three tokens or more were popped
\* to the end, and two more pop() calls returned None.
C1_Witness ==
    /\ source.end = "StopIteration"
    /\ Len(source.data) >= 3
    /\ Len(AllTokens) >= 3
    /\ Len(popped) >= Len(AllTokens) + 2
    /\ popped[Len(popped)] = None

\* C7 (as claimed): once the source has signalled exhaustion, it is never
\* queried again.
C7_NoRequery == ~source.requeried

\* C8 (as claimed): the cursor is an index into the current line or is
\* exactly its length.
C8_CursorInRange == 0 <= index /\ index <= Len(current_line)

\* C9: a returning current() whose line is used up skips every empty line
\* and stops on the first non-empty one, returning its first token; it
\* returns None only when no non-empty line is left and the source has
\* signalled its end.
C9_SkipsEmptyLines ==
    (op \in {"current", "__init__"} /\ ret.sig = "return" /\ ~more_on_line(pre)) =>
        LET k == NextNonEmpty(pre.source.data, pre.source.pos) IN
        IF k = 0
        THEN /\ ret.val = None
             /\ source.pos = Len(source.data)
             /\ source.signalled
        ELSE /\ ret.val = source.data[k][1]
             /\ source.pos = k
             /\ current_line = source.data[k]
             /\ index = 0

\* C9 witness: one current() call, made after a pop(), went over two empty
\* lines and returned the first token of the line after them.
C9_Witness ==
    /\ op = "current"
    /\ ret.sig = "return"
    /\ ret.val # None
    /\ ~more_on_line(pre)
    /\ pre.source.pos >= 1
    /\ source.pos = pre.source.pos + 3
    /\ source.data[source.pos - 1] = <<>>
    /\ source.data[source.pos - 2] = <<>>

\* C10: a returning current() returns the first token still to deliver (None
\* when there is none) and leaves what is still to deliver unchanged;
\* more_on_line changes nothing; a returning pop() returns that same first
\* token and removes exactly it.  So the tokens pop() delivers do not depend
\* on the current() and more_on_line calls made in between.
C10_CurrentDoesNotConsume ==
    /\ (op = "current" /\ ret.sig = "return") =>
           /\ ret.val = First(Remaining(pre))
           /\ Remaining(Buf) = Remaining(pre)
    /\ op = "more_on_line" => Buf = pre
    /\ (op = "pop" /\ ret.sig = "return") =>
           /\ ret.val = First(Remaining(pre))
           /\ Remaining(pre) # <<>> => Remaining(Buf) = Tail(Remaining(pre))
           /\ Remaining(pre) = <<>> => Remaining(Buf) = <<>>

\* C10 witness: a pop() returned a token right after a current() that had to
\* pull a line to find it.
C10_Witness ==
    /\ op = "pop"
    /\ ret.sig = "return"
    /\ ret.val # None
    /\ pre.index = 0
    /\ pre.source.pos >= 2
    /\ Len(popped) >= 2
    /\ Remaining(Buf) # <<>>

----------------------------------------------------------------------------
\* The grammar the reader is specified to accept, over a token sequence t:
\* RefRead(t, i) is the expression that starts at token i, as its value and
\* the place of its last token (end = 0 when no well-formed expression
\* starts there); RefTail is the same for the rest of a list after n items.

NoExpr == [end |-> 0, val |-> Nil]

RECURSIVE RefRead(_, _), RefTail(_, _, _)

RefRead(t, i) ==
    IF i > Len(t) THEN NoExpr
    ELSE IF t[i] \notin PUNCTUATORS THEN [end |-> i, val |-> Atom(t[i])]
    ELSE IF t[i] \in DOMAIN QUOTES THEN
        LET e == RefRead(t, i + 1) IN
        IF e.end = 0 THEN NoExpr
        ELSE [end |-> e.end, val |-> Pair(Atom(QUOTES[t[i]]), Pair(e.val, Nil))]
    ELSE IF t[i] = "(" THEN RefTail(t, i + 1, 0)
    ELSE NoExpr

RefTail(t, i, n) ==
    IF i > Len(t) THEN NoExpr
    ELSE IF t[i] = ")" THEN [end |-> i, val |-> Nil]
    ELSE IF t[i] = "." THEN
        IF n = 0 THEN NoExpr
        ELSE LET x == RefRead(t, i + 1) IN
             IF x.end = 0 \/ x.end + 1 > Len(t) THEN NoExpr
             ELSE IF t[x.end + 1] # ")" THEN NoExpr
             ELSE [end |-> x.end + 1, val |-> x.val]
    ELSE LET f == RefRead(t, i) IN
         IF f.end = 0 THEN NoExpr
         ELSE LET r == RefTail(t, f.end + 1, n + 1) IN
              IF r.end = 0 THEN NoExpr
              ELSE [end |-> r.end, val |-> Pair(f.val, r.val)]

\* The list whose items start at token i, n of them already passed, misuses
\* the dot: a dot with no item before it, a dot followed at once by ')', or
\* a dot followed by two expressions.  A list among the items counts too.
RECURSIVE DotMisuse(_, _, _)
DotMisuse(t, i, n) ==
    IF i > Len(t) THEN FALSE
    ELSE IF t[i] = ")" THEN FALSE
    ELSE IF t[i] = "." THEN
        \/ n = 0
        \/ i + 1 <= Len(t) /\ t[i + 1] = ")"
        \/ LET x == RefRead(t, i + 1) IN
           x.end # 0 /\ RefRead(t, x.end + 1).end # 0
    ELSE \/ t[i] = "(" /\ DotMisuse(t, i + 1, 0)
         \/ LET f == RefRead(t, i) IN
            f.end # 0 /\ DotMisuse(t, f.end + 1, n + 1)

\* Tokens 1..k of t open more lists than they close
Depth(t, k) ==
    Cardinality({j \in 1..k : t[j] = "("}) - Cardinality({j \in 1..k : t[j] = ")"})

\* t starts a list that none of its tokens closes
Unclosed(t) ==
    /\ t # <<>>
    /\ t[1] = "("
    /\ \A k \in 1..Len(t) : Depth(t, k) > 0

Raised(e) == ret.sig = "raise" /\ ret.val = e
Returned(v) == ret.sig = "return" /\ ret.val = v

----------------------------------------------------------------------------
\* Reader claims

\* C2 (as claimed): when the tokens still to deliver start with a well-formed
\* expression that holds a quote-family punctuator, at any depth, scheme_read
\* returns that expression with every such punctuator q and its operand E
\* read as the two-element list (QUOTES[q] E).
C2_QuoteExpansion ==
    op = "scheme_read" =>
        LET t == Remaining(pre)
            r == RefRead(t, 1) IN
        (r.end # 0 /\ \E k \in 1..r.end : t[k] \in DOMAIN QUOTES) => Returned(r.val)

\* C3 (as claimed): when the tokens still to deliver start with a well-formed
\* list that holds a dot, scheme_read returns it with the expression after
\* the dot as the tail itself: (a . a) as Pair(a, a).
C3_DottedTail ==
    op = "scheme_read" =>
        LET t == Remaining(pre)
            r == RefRead(t, 1) IN
        (r.end # 0 /\ \E k \in 1..r.end : t[k] = ".") => Returned(r.val)

\* C4: reading a list that misuses the dot (no item before it, no expression
\* or more than one between it and the closing parenthesis) raises
\* SyntaxError and returns nothing.
C4_DotMisuseRaises ==
    op = "scheme_read" =>
        LET t == Remaining(pre) IN
        (t # <<>> /\ t[1] = "(" /\ DotMisuse(t, 2, 0)) => Raised("SyntaxError")

\* C4 witness: scheme_read met ( a . a a ), a dot followed by two
\* expressions, and raised SyntaxError.
C4_Witness ==
    /\ op = "scheme_read"
    /\ Remaining(pre) = <<"(", "a", ".", "a", "a", ")">>
    /\ Raised("SyntaxError")

\* C5 (as claimed): when the tokens still to deliver start with a well-formed
\* expression, scheme_read returns and has consumed exactly the tokens of
\* that expression: what is still to deliver afterwards starts with the
\* first token after it.
C5_ConsumesExactly ==
    op = "scheme_read" =>
        LET t == Remaining(pre)
            r == RefRead(t, 1) IN
        r.end # 0 =>
            /\ ret.sig = "return"
            /\ Remaining(Buf) = SubSeq(t, r.end + 1, Len(t))

\* The source of b has no line left, and has signalled its end or b stands at
\* the end of its last line: every token of the input has been delivered.
SourceExhausted(b) ==
    /\ b.source.pos = Len(b.source.data)
    /\ (b.source.signalled \/ ~more_on_line(b))

\* C6 (as claimed): called with the source exhausted, scheme_read raises
\* EOFError and no SyntaxError; called with tokens left that open a list and
\* do not close it, scheme_read raises SyntaxError.
C6_EndOfInput ==
    op = "scheme_read" =>
        IF SourceExhausted(pre)
        THEN Raised("EOFError")
        ELSE Unclosed(Remaining(pre)) => Raised("SyntaxError")

\* The buffer that holds the tokens b has left on one single line.
OneLine(b) == current(Buffer(Source(<<Remaining(b)>>, b.source.end))).b

\* C11: scheme_read gives the same outcome (the same expression, or the same
\* exception) however the remaining tokens are split across lines, empty
\* lines included, as it gives with all of them on one line; when it returns
\* an expression it leaves the same tokens unread.
C11_SplitIndependent ==
    op = "scheme_read" =>
        LET one == scheme_read(OneLine(pre)) IN
        /\ ret.sig = one.sig
        /\ ret.val = one.val
        /\ ret.sig = "return" => Remaining(Buf) = Remaining(one.b)

\* A list was read whose tokens lay on two lines with an empty line between.
C11_Witness ==
    /\ op = "scheme_read"
    /\ ret.sig = "return"
    /\ ret.val # Nil
    /\ Len(pre.source.data) = 3
    /\ pre.source.data[2] = <<>>
    /\ pre.source.data[1] # <<>>
    /\ pre.source.data[3] # <<>>
    /\ pre.source.pos = 1
    /\ source.pos = 3

----------------------------------------------------------------------------
\* Inputs of a Tokenizer: the lines handed to tokenize_lines, which maps
\* tokenize_line over them in their order.  A line is made of pieces.  One
\* line holds at most MaxPieces pieces of Pieces; an input of at most
\* MaxInputLines lines holds at most MaxStringPieces pieces of StringPieces,
\* cut into lines at any places.  The lines of an input all end in a newline
\* (a file) or none does (a list of strings).

MaxPieces == 3
MaxStringPieces == 4
MaxInputLines == 3

Pieces ==
    {<<DQ>>, <<BS>>, <<"a">>, <<" ">>, <<"1">>, <<".">>, <<"(">>, <<")">>, <<";">>,
     <<"#", BS, "a">>, <<"#", BS, "s", "p", "a", "c", "e">>}

StringPieces == {<<DQ>>, <<BS>>, <<"a">>}

PieceSeqs(P, n) == UNION {[1..k -> P] : k \in 0..n}

\* The ways to cut a sequence of pieces into m lines
RECURSIVE CutLines(_, _)
CutLines(ps, m) ==
    IF m = 1 THEN {<<Flatten(ps)>>}
    ELSE UNION {{<<Flatten(SubSeq(ps, 1, c))>> \o rest : rest \in CutLines(From(ps, c), m - 1)} :
                    c \in 0..Len(ps)}

InputLines(pieces, strings, lines) ==
    {<<Flatten(ps)>> : ps \in PieceSeqs(Pieces, pieces)}
        \cup UNION {CutLines(ps, m) :
                        ps \in PieceSeqs(StringPieces, strings), m \in 1..lines}

\* A Tokenizer() and the lines it is to tokenize; no Buffer is in use
Tokenizer(lines) ==
    /\ Construct(Source(<<>>, "StopIteration"))
    /\ input_data = lines

InitTok ==
    \E lines \in InputLines(MaxPieces, MaxStringPieces, MaxInputLines) :
    \E newline \in BOOLEAN :
        Tokenizer([i \in DOMAIN lines |->
                      IF newline THEN lines[i] \o <<NL>> ELSE lines[i]])

\* next() on tokenize_lines(input_data): tokenize_line on the next line
TokenizeLine ==
    /\ lineno < Len(input_data)
    /\ LET called(line, r) ==
               /\ partial_string' = r.partial_string
               /\ lineno' = lineno + 1
               /\ op' = "tokenize_line"
               /\ ret' = [sig |-> r.sig, val |-> r.val, text |-> r.text,
                          warnings |-> r.warnings]
               /\ pre' = [partial_string |-> partial_string, line |-> line] IN
       called(input_data[lineno + 1],
              tokenize_line(partial_string, input_data[lineno + 1]))
    /\ UNCHANGED <<source, index, current_line, popped, input_data>>

NextTok == TokenizeLine

SpecTok == InitTok /\ [][NextTok]_vars

----------------------------------------------------------------------------
\* Tokenizer claims

\* The line as tokenize_line scans it: with a newline at its end
WithNewline(line) == IF At(line, Len(line)) # NL THEN line \o <<NL>> ELSE line

\* The closing quote of a string that is open at position p of t: the first
\* quote from p on that no backslash escapes (a backslash escapes the
\* character after it).  Its position, 0 when t holds none.
RECURSIVE ClosingQuote(_, _)
ClosingQuote(t, p) ==
    IF p > Len(t) THEN 0
    ELSE IF t[p] = DQ THEN p
    ELSE IF t[p] = BS THEN ClosingQuote(t, p + 2)
    ELSE ClosingQuote(t, p + 1)

\* C12 (as claimed): with a string pending, a line without a closing quote
\* yields no token and is appended whole to the pending fragment; a line
\* with a closing quote yields first the string token made of the fragment
\* and the text up to that quote, then the tokens of the rest of the line
\* (or the error of the rest of the line), and the pending state is emptied
\* there and only there.
C12_MultiLineString ==
    (op = "tokenize_line" /\ pre.partial_string # None) =>
        LET line == WithNewline(pre.line)
            q == ClosingQuote(line, 1)
            rest == tokenize_line(None, From(line, q))
            string == process_token(pre.partial_string \o SubSeq(line, 1, q),
                                    "RAW_STRING") IN
        IF q = 0
        THEN /\ ret.sig = "return"
             /\ ret.val = <<>>
             /\ partial_string = pre.partial_string \o line
        ELSE /\ ret.sig = rest.sig
             /\ ret.val = IF rest.sig = "return" THEN <<string>> \o rest.val ELSE rest.val
             /\ partial_string = rest.partial_string

\* The first pattern of TOKEN_PATTERNS that matches the text, "" for none
FirstMatch(text) ==
    LET found == {k \in DOMAIN TOKEN_PATTERNS : Match(TOKEN_PATTERNS[k], text) > 0} IN
    IF found = {} THEN ""
    ELSE TOKEN_PATTERNS[CHOOSE k \in found : \A j \in found : k <= j]

\* Where the scan of a line from a position gets stuck: the first place
\* after a run of tokens and whitespace, and before any comment or
\* unclosed string, where a character that is no whitespace stands and no
\* pattern matches.  Positions count from 0; -1 when there is no such place.
RECURSIVE Stuck(_, _)
Stuck(line, position) ==
    LET p == position + Run(line, position + 1, WHITESPACE)
        pattern == FirstMatch(From(line, p)) IN
    IF p = Len(line) THEN -1
    ELSE IF pattern = "" THEN p
    ELSE IF pattern \in {"STRING_START", "COMMENT"} THEN -1
    ELSE Stuck(line, p + Match(pattern, From(line, p)))

\* Where the scan of a line starts: at its beginning, or after the quote
\* that closes the pending string; -1 when the line is all string
ScanStart(ps, line) ==
    IF ps = None THEN 0
    ELSE IF STRING_END(line) > 0 THEN STRING_END(line) ELSE -1

\* C13: when the scan of a line comes to a character that is no whitespace
\* and at which no token pattern matches, tokenize_line raises SyntaxError
\* with the remaining text of the line from that character on, and returns no
\* token list.
C13_UnmatchedRaises ==
    op = "tokenize_line" =>
        LET line == WithNewline(pre.line)
            start == ScanStart(pre.partial_string, line)
            s == IF start < 0 THEN -1 ELSE Stuck(line, start) IN
        s >= 0 =>
            /\ ret.sig = "raise"
            /\ ret.val = "SyntaxError"
            /\ ret.text = From(line, s)

\* A line with tokens and then a text no pattern matches has been tokenized
C13_Witness ==
    /\ op = "tokenize_line"
    /\ ret.sig = "raise"
    /\ ret.val = "SyntaxError"
    /\ ret.text # <<>>
    /\ Len(ret.text) < Len(WithNewline(pre.line)) - 1
    /\ FirstMatch(ret.text) = ""
    /\ ret.text[1] \notin WHITESPACE

----------------------------------------------------------------------------
\* Inputs of the number conversion: one line that holds one numeric literal,
\* a prefix of Prefixes, a sign of Signs and at most MaxBody characters of
\* NumChars, that NUMBER matches as a whole.

MaxBody == 4

NumChars == {"1", "a", "e", "s", ".", "/", "#"}

Prefixes ==
    {<<>>, <<"#", "b">>, <<"#", "o">>, <<"#", "d">>, <<"#", "x">>,
     <<"#", "e">>, <<"#", "i">>, <<"#", "e", "#", "x">>, <<"#", "x", "#", "i">>,
     <<"#", "i", "#", "d">>, <<"#", "b", "#", "e">>}

Signs == {<<>>, <<"-">>}

NumberLiterals(n) ==
    {lit \in {p \o s \o b : p \in Prefixes, s \in Signs,
                            b \in UNION {[1..k -> NumChars] : k \in 1..n}} :
        NUMBER(lit) = Len(lit)}

InitNum == \E lit \in NumberLiterals(MaxBody) : Tokenizer(<<lit>>)

SpecNum == InitNum /\ [][NextTok]_vars

\* The parts of a numeric literal: its prefix, and its body without the sign
PrefixOf(lit) == SubSeq(lit, 1, PREFIX(lit))

BodyOf(lit) == From(lit, PREFIX(lit) + SIGN(lit, PREFIX(lit) + 1))

Negative(lit) == At(lit, PREFIX(lit) + 1) = "-"

\* C14 (as claimed): a literal made of a radix prefix #b, #o, #d or #x, a
\* sign and digits of that radix is tokenized to one token, the exact
\* integer that the digits denote in that radix.
C14_RadixInteger ==
    (/\ op = "tokenize_line"
     /\ Len(PrefixOf(pre.line)) = 2
     /\ RadixAt(pre.line, 1)
     /\ Range(BodyOf(pre.line)) \subseteq DigitsOf(RADIX(PrefixOf(pre.line)))) =>
        LET body == BodyOf(pre.line)
            value == DigitsValue(body, 1, Len(body), RADIX(PrefixOf(pre.line))) IN
        /\ ret.sig = "return"
        /\ ret.val = <<Integer(IF Negative(pre.line) THEN 0 - value ELSE value)>>

\* The literal has the exactness prefix #e (c = "e") or #i (c = "i")
Exactness(lit, c) ==
    \E p \in 1..PREFIX(lit) : lit[p] = "#" /\ lower(lit[p + 1]) = c

\* The literal is of base 10 and has an exponent suffix
HasSuffix(lit) ==
    /\ RADIX(PrefixOf(lit)) = 10
    /\ \E p \in DOMAIN BodyOf(lit) : BodyOf(lit)[p] \in EXPONENT_MARKER

\* The literal with e for its exponent marker
WithMarkerE(lit) ==
    [i \in DOMAIN lit |->
        IF i > PREFIX(lit) /\ lit[i] \in EXPONENT_MARKER THEN "e" ELSE lit[i]]

\* C15 (as claimed): a base-10 literal with an exponent suffix and without
\* the prefix #e is tokenized without error to one inexact token, the same
\* as the literal with marker e gives, whichever of e, s, f, d, l its marker
\* is and whether it has a decimal point or not.
C15_MarkersInterchangeable ==
    (/\ op = "tokenize_line"
     /\ HasSuffix(pre.line)
     /\ ~Exactness(pre.line, "e")) =>
        /\ ret.sig = "return"
        /\ Len(ret.val) = 1
        /\ ret.val[1].kind = "float"
        /\ ret.val = tokenize_line(None, WithMarkerE(pre.line)).val

\* The literal is written with a decimal point or an exponent marker
DecimalForm(lit) ==
    /\ RADIX(PrefixOf(lit)) = 10
    /\ \E p \in DOMAIN BodyOf(lit) : BodyOf(lit)[p] \in EXPONENT_MARKER \cup {"."}

\* C16 (as claimed): the token of a real literal is a float when the literal
\* has the prefix #i, an int or a Fraction when it has the prefix #e; without
\* either it is a float when the literal has a decimal point or an exponent
\* marker, an int or a Fraction when it is an integer or a fraction.
C16_Exactness ==
    op = "tokenize_line" =>
        /\ ret.sig = "return"
        /\ Len(ret.val) = 1
        /\ IF Exactness(pre.line, "i") THEN ret.val[1].kind = "float"
           ELSE IF Exactness(pre.line, "e") THEN ret.val[1].kind \in {"int", "Fraction"}
           ELSE IF DecimalForm(pre.line) THEN ret.val[1].kind = "float"
           ELSE ret.val[1].kind \in {"int", "Fraction"}

\* The line with a space put in at the place each of the first k warnings
\* names: after the token, before the character that is no delimiter
RECURSIVE Delimit(_, _, _)
Delimit(line, warnings, k) ==
    IF k = 0 THEN line
    ELSE Delimit(SubSeq(line, 1, warnings[k].position) \o <<" ">>
                     \o From(line, warnings[k].position),
                 warnings, k - 1)

\* C17: a line on which tokens that require a delimiter are followed by
\* characters that are no delimiters is tokenized as the same line with a
\* space after each of these tokens: the same token list (these tokens and
\* all later ones included) and the same pending string, or the same error
\* with the same text; the warning causes no error.
C17_WarningNotFatal ==
    (op = "tokenize_line" /\ ret.warnings # <<>>) =>
        LET line == WithNewline(pre.line)
            d == tokenize_line(pre.partial_string,
                               Delimit(line, ret.warnings, Len(ret.warnings))) IN
        /\ d.warnings = <<>>
        /\ ret.sig = d.sig
        /\ ret.val = d.val
        /\ ret.text = d.text
        /\ partial_string = d.partial_string

\* An undelimited token and a token after it were returned
C17_Witness ==
    /\ op = "tokenize_line"
    /\ ret.sig = "return"
    /\ Len(ret.warnings) = 1
    /\ Len(ret.val) = 3
    /\ ret.warnings[1].position < Len(pre.line) - 1

\* The characters after which a token needs no warning: whitespace, the
\* parentheses, the double quote, the semicolon, and the end of the line
Delimiting == {" ", "\t", NL, "\r", "(", ")", DQ, ";", ""}

\* The tokens that must be followed by a delimiter.  As claimed: numbers,
\* identifiers, the punctuator . and the character literals of several
\* characters.  As the code has it: numbers, identifiers, the punctuator .
\* and the character literals of one letter.
RequiresDelimiter(token_text, pattern, long) ==
    \/ pattern \in {"NUMBER", "IDENTIFIER"}
    \/ pattern = "PUNCTUATOR" /\ token_text = <<".">>
    \/ pattern = "CHARACTER" /\ long /\ Len(token_text) > 3
    \/ pattern = "CHARACTER" /\ ~long /\ Len(token_text) = 3 /\ isalpha(token_text[3])

\* The positions (from 0) of the characters, in the scan of a line from a
\* position, that are no delimiters and follow a token that requires one
RECURSIVE Undelimited(_, _, _)
Undelimited(line, position, long) ==
    LET p == position + Run(line, position + 1, WHITESPACE)
        text == From(line, p)
        pattern == FirstMatch(text)
        n == Match(pattern, text) IN
    IF p = Len(line) \/ pattern \in {"", "STRING_START", "COMMENT"} THEN <<>>
    ELSE (IF RequiresDelimiter(SubSeq(text, 1, n), pattern, long)
             /\ At(line, p + n + 1) \notin Delimiting
          THEN <<p + n>> ELSE <<>>) \o Undelimited(line, p + n, long)

\* The positions the warnings of the last call name
Warned == [i \in DOMAIN ret.warnings |-> ret.warnings[i].position]

\* C18 (as claimed): a warning is printed for every number, identifier,
\* punctuator . and character literal of several characters (#\space,
\* #\newline) that the scan of a line finds followed by a character that is
\* no delimiter, and no warning names a token followed by a delimiter.
C18_WarningWhenUndelimited ==
    op = "tokenize_line" =>
        LET line == WithNewline(pre.line)
            start == ScanStart(pre.partial_string, line)
            due == IF start < 0 THEN <<>> ELSE Undelimited(line, start, TRUE) IN
        /\ Range(due) \subseteq Range(Warned)
        /\ \A i \in DOMAIN ret.warnings :
               At(line, ret.warnings[i].position + 1) \notin Delimiting

\* C18 (amended): the warnings printed are, in order, one for every number,
\* identifier, punctuator . and character literal of one letter (#\a) that
\* the scan of a line finds followed by a character that is no delimiter; no
\* other token causes a warning, #\space and #\newline never do.
C18_WarningForOneLetter ==
    op = "tokenize_line" =>
        LET line == WithNewline(pre.line)
            start == ScanStart(pre.partial_string, line) IN
        Warned = IF start < 0 THEN <<>> ELSE Undelimited(line, start, FALSE)

\* The literal #\a followed by a letter was tokenized, with a warning
C18_Witness ==
    /\ op = "tokenize_line"
    /\ ret.sig = "return"
    /\ ret.val = <<Str(<<"#", BS, "a">>), Str(<<"a">>)>>
    /\ Len(ret.warnings) = 1
    /\ ret.warnings[1].token = <<"#", BS, "a">>
    /\ ret.warnings[1].next_char = "a"

\* C19: in every tokenizer state, idle or with a string pending, a line that
\* does not end in a newline is tokenized as the same line with a newline at
\* its end is: the same tokens or the same error with the same text, the same
\* warnings, and the same pending string afterwards.
C19_MissingNewline ==
    (op = "tokenize_line" /\ At(pre.line, Len(pre.line)) # NL) =>
        LET d == tokenize_line(pre.partial_string, pre.line \o <<NL>>) IN
        /\ ret.sig = d.sig
        /\ ret.val = d.val
        /\ ret.text = d.text
        /\ ret.warnings = d.warnings
        /\ partial_string = d.partial_string

\* With a string pending, a line without a newline at its end has closed
\* the string, given a further token and opened a string again
C19_Witness ==
    /\ op = "tokenize_line"
    /\ pre.partial_string # None
    /\ pre.line # <<>>
    /\ At(pre.line, Len(pre.line)) # NL
    /\ ret.sig = "return"
    /\ Len(ret.val) = 2
    /\ partial_string # None

----------------------------------------------------------------------------
\* The pipeline: a Buffer over tokenize_lines over lines of text
\* (buffer_lines, buffer_input).  The text is at most MaxPipePieces pieces of
\* StringPieces cut into at most MaxInputLines lines.

MaxPipePieces == 3

PipeInputs(strings, lines) ==
    UNION {CutLines(ps, m) : ps \in PieceSeqs(StringPieces, strings), m \in 1..lines}

\* Tokenizer().tokenize_lines(lines), not yet asked for a line
MapSource(lines, end) ==
    [data |-> lines, pos |-> 0, end |-> end, signalled |-> FALSE,
     requeried |-> FALSE, tokenizer |-> None]

InitPipe ==
    \E lines \in PipeInputs(MaxPipePieces, MaxInputLines) : \E end \in Ends :
        /\ Construct(MapSource(lines, end))
        /\ input_data = lines

SpecPipe == InitPipe /\ [][Next]_vars

\* The partial_string of a tokenizer that has tokenized the first k lines
RECURSIVE TokenizerAfter(_, _)
TokenizerAfter(lines, k) ==
    IF k = 0 THEN None
    ELSE tokenize_line(TokenizerAfter(lines, k - 1), lines[k]).partial_string

\* The tokenization of the k-th line of an input
Tokenization(lines, k) == tokenize_line(TokenizerAfter(lines, k - 1), lines[k])

\* C20: more_on_line takes no line from the line source.  The constructor,
\* current() and pop() take a line only when the Buffer has no token left of
\* the lines taken before; of the lines a call takes, all but the last have
\* the empty token list for their tokenization, and what the call gets for
\* the last one, the k-th line of the input, is the tokenization of that
\* k-th line: its token list as the Buffer's current line, or its error.
C20_NoReadAhead ==
    /\ op = "more_on_line" => source.pos = pre.source.pos
    /\ source.pos # pre.source.pos =>
          /\ ~more_on_line(pre)
          /\ \A k \in (pre.source.pos + 1)..source.pos :
                LET r == Tokenization(input_data, k) IN
                IF k < source.pos THEN r.sig = "return" /\ r.val = <<>>
                ELSE IF r.sig = "raise" THEN ret.sig = "raise" /\ ret.val = r.val
                ELSE current_line = r.val

\* A pop() has taken the second and the third line of the input, after the
\* tokens of the first, and returned a token of the third
C20_Witness ==
    /\ op = "pop"
    /\ pre.source.pos = 1
    /\ pre.current_line # <<>>
    /\ source.pos = 3
    /\ ret.sig = "return"
    /\ current_line # <<>>
    /\ index = 1

----------------------------------------------------------------------------
\* Inputs of a reader that meets every punctuator scheme_read rejects: every
\* sequence of at most MaxPunctToks tokens of PunctTokens, on one line or cut
\* as SplitLines cuts it.

MaxPunctToks == 3

PunctTokens == Tokens \cup {"#("}

InitPunct ==
    /\ \E toks \in UNION {[1..k -> PunctTokens] : k \in 0..MaxPunctToks} :
       \E data \in {<<toks>>} \cup SplitLines(toks) : \E end \in Ends :
           Construct(Source(data, end))
    /\ input_data = <<>>

SpecPunct == InitPunct /\ [][NextRead]_vars

\* An expression starts at position k of the tokens t: at the first token,
\* or inside lists that are all still open, after elements that are atoms
StartsExpression(t, k) ==
    \/ k = 1
    \/ /\ t[1] = "("
       /\ \A j \in 1..(k - 1) : t[j] \in {"(", "a"}
       /\ t[k] # ")"

\* C21: when scheme_read meets ) . or #( where an expression starts, at the
\* first token it reads or inside a list, it raises SyntaxError: it returns
\* no value and does not raise EOFError.
C21_PunctuatorRaises ==
    op = "scheme_read" =>
        LET t == Remaining(pre) IN
        \A k \in DOMAIN t :
            (StartsExpression(t, k) /\ t[k] \in {")", ".", "#("}) =>
                Raised("SyntaxError")

\* C21 witness: scheme_read met #( as the second element of a list
C21_Witness ==
    /\ op = "scheme_read"
    /\ Remaining(pre) = <<"(", "a", "#(">>
    /\ Raised("SyntaxError")

----------------------------------------------------------------------------
\* Pair and Nil (scheme_core).  A value is Nil, an Atom or a Pair of values;
\* input_data holds the argument of the calls, and no Buffer is in use.

MaxDepth == 2

\* The values nested at most n pairs deep, over two atoms
RECURSIVE Values(_)
Values(n) ==
    IF n = 0 THEN {Nil, Atom("a"), Atom("1")}
    ELSE Values(n - 1) \cup {Pair(x, y) : x, y \in Values(n - 1)}

isinstance_Pair(v) == v[1] = "Pair"

TypeError == [sig |-> "raise", val |-> "TypeError"]

\* Pair.is_list: the loop over pair = pair.second
RECURSIVE is_list(_)
is_list(pair) ==
    IF pair = Nil THEN TRUE
    ELSE IF ~isinstance_Pair(pair) THEN FALSE
    ELSE is_list(pair[3])

is_scheme_list(expr) == expr = Nil \/ (isinstance_Pair(expr) /\ is_list(expr))

\* The loop of Pair.__len__, from result and second
RECURSIVE len_loop(_, _)
len_loop(result, second) ==
    IF isinstance_Pair(second) THEN len_loop(result + 1, second[3])
    ELSE IF second # Nil THEN TypeError
    ELSE [sig |-> "return", val |-> result]

\* A len that counts the pairs and does not look at the end of the chain
RECURSIVE len_counting(_)
len_counting(v) ==
    IF isinstance_Pair(v)
    THEN [sig |-> "return", val |-> 1 + len_counting(v[3]).val]
    ELSE [sig |-> "return", val |-> 0]

\* len(v) for v a Pair (Pair.__len__) or Nil (Nil.__len__)
len(v) == IF v = Nil THEN [sig |-> "return", val |-> 0] ELSE len_loop(1, v[3])

\* The primitive length: check_type with scheme_listp, then len
scheme_length(val) == IF ~is_scheme_list(val) THEN TypeError ELSE len(val)

InitList ==
    \E v \in Values(MaxDepth) :
        /\ Construct(Source(<<>>, "StopIteration"))
        /\ input_data = v

\* A call of a function on input_data has ended as r says
Applied(name, r) ==
    /\ op' = name
    /\ ret' = r
    /\ pre' = input_data
    /\ UNCHANGED <<source, index, current_line, popped, partial_string,
                   input_data, lineno>>

IsSchemeList ==
    Applied("is_scheme_list", [sig |-> "return", val |-> is_scheme_list(input_data)])

PairLen ==
    /\ input_data = Nil \/ isinstance_Pair(input_data)
    /\ Applied("len", len(input_data))

SchemeLength == Applied("scheme_length", scheme_length(input_data))

NextList == IsSchemeList \/ PairLen \/ SchemeLength

SpecList == InitList /\ [][NextList]_vars

\* The value at which the chain of second links from v ends, and the number
\* of pairs on that chain
RECURSIVE ChainEnd(_)
ChainEnd(v) == IF v[1] = "Pair" THEN ChainEnd(v[3]) ELSE v

RECURSIVE ChainPairs(_)
ChainPairs(v) == IF v[1] = "Pair" THEN 1 + ChainPairs(v[3]) ELSE 0

\* C22: is_scheme_list(v) is true exactly when the chain of second links
\* from v ends at Nil; len(v), for v a Pair or Nil, and the primitive length,
\* for every v, return the number of pairs on the chain when it ends at Nil
\* and raise TypeError when it ends at another value.
C22_ListLength ==
    /\ op = "is_scheme_list" => Returned(ChainEnd(pre) = Nil)
    /\ op \in {"len", "scheme_length"} =>
          IF ChainEnd(pre) = Nil THEN Returned(ChainPairs(pre))
          ELSE Raised("TypeError")

\* C22 witness: len of a chain of two pairs that ends at an atom
C22_Witness ==
    /\ op = "len"
    /\ pre = Pair(Atom("a"), Pair(Nil, Atom("1")))
    /\ Raised("TypeError")

----------------------------------------------------------------------------
\* The primitives modulo and remainder on integers.  input_data holds the
\* two arguments, integers of absolute value at most MaxNum.

MaxNum == 6

SchemeError == [sig |-> "raise", val |-> "SchemeError"]

\* operator.mod on integers: the result has the sign of val1;
\* ZeroDivisionError becomes SchemeError
modulo(val0, val1) ==
    IF val1 = 0 THEN SchemeError
    ELSE IF val1 > 0 THEN [sig |-> "return", val |-> val0 % val1]
    ELSE [sig |-> "return", val |-> 0 - ((0 - val0) % (0 - val1))]

scheme_modulo(val0, val1) == modulo(val0, val1)

\* math.copysign(1, val) for an integer val
copysign(val) == IF val < 0 THEN -1 ELSE 1

scheme_remainder(val0, val1) ==
    LET adjust(result) ==
            IF result.sig = "raise" THEN result
            ELSE IF copysign(val0) # copysign(val1)
            THEN [sig |-> "return", val |-> result.val - val1]
            ELSE result IN
    adjust(modulo(val0, val1))

InitRem ==
    \E a, b \in (0 - MaxNum)..MaxNum :
        /\ Construct(Source(<<>>, "StopIteration"))
        /\ input_data = <<a, b>>

SchemeModulo == Applied("scheme_modulo", scheme_modulo(input_data[1], input_data[2]))

SchemeRemainder ==
    Applied("scheme_remainder", scheme_remainder(input_data[1], input_data[2]))

NextRem == SchemeModulo \/ SchemeRemainder

SpecRem == InitRem /\ [][NextRem]_vars

\* The quotient of a by b truncated toward zero
Truncated(a, b) ==
    (IF (a < 0) = (b < 0) THEN 1 ELSE -1) * (Abs(a) \div Abs(b))

\* C23 (as claimed): for integers a and b, b not zero, remainder returns the
\* r with a = b*q + r for the quotient q truncated toward zero; |r| < |b|,
\* and r is zero or has the sign of a.
C23_Remainder ==
    (op = "scheme_remainder" /\ pre[2] # 0) =>
        /\ ret.sig = "return"
        /\ pre[1] = pre[2] * Truncated(pre[1], pre[2]) + ret.val
        /\ Abs(ret.val) < Abs(pre[2])
        /\ ret.val = 0 \/ (ret.val < 0) = (pre[1] < 0)

\* The number of tokens on the first k lines of the input, the lines whose
\* tokenization raises holding none
RECURSIVE TokensOn(_, _)
TokensOn(lines, k) ==
    IF k = 0 THEN 0
    ELSE TokensOn(lines, k - 1)
             + (IF Tokenization(lines, k).sig = "return"
                THEN Len(Tokenization(lines, k).val) ELSE 0)

\* The number of tokens the calls of pop have returned so far: what pop
\* returned but for None, told from a token by the way it is written
Delivered ==
    Cardinality({i \in DOMAIN popped : ToString(popped[i]) # ToString(None)})

\* C24 (as claimed): a token is delivered once at most.  When pulling a line
\* raises inside current() or pop(), a SyntaxError of the tokenizer or the
\* EOFError of the line reader, the line consumed before does not get more
\* tokens again, and the calls of pop never return more tokens than the
\* lines taken from the source hold.
C24_DeliveredOnce ==
    /\ (op \in {"current", "pop"} /\ ret.sig = "raise") => ~more_on_line(Buf)
    /\ Delivered <= TokensOn(input_data, source.pos)

----------------------------------------------------------------------------
\* The calls of _next_token that tokenize_line makes on a line, in order:
\* the partial_string and the position each call starts with, and the
\* partial_string it leaves (that of the call's start when it raises)
RECURSIVE Calls(_, _, _)
Calls(ps, line, i) ==
    LET r == next_token(ps, line, i) IN
    <<[partial_string |-> ps, position |-> i, left |-> r.partial_string,
       sig |-> r.sig]>>
    \o (IF r.sig = "raise" \/ r.token = Str(<<>>)
        THEN <<>>
        ELSE Calls(r.partial_string, line, r.position))

\* C25: in every tokenize_line, over every sequence of lines, a call of
\* _next_token that runs with a string pending is at position 0, so the
\* assertion `position == 0` never fails and tokenize_line never raises
\* AssertionError; and the call that opens an unterminated string is the
\* last call on its line, no token being scanned after it.
C25_PendingAtLineStart ==
    op = "tokenize_line" =>
        LET calls == Calls(pre.partial_string, WithNewline(pre.line), 0) IN
        /\ ~Raised("AssertionError")
        /\ \A k \in DOMAIN calls :
              /\ calls[k].partial_string # None => calls[k].position = 0
              /\ (calls[k].sig = "return" /\ calls[k].left # None) => k = Len(calls)

\* A line has given a token and then opened an unterminated string
C25_Witness ==
    /\ op = "tokenize_line"
    /\ pre.partial_string = None
    /\ pre.line = <<"a", DQ, "a">>
    /\ Returned(<<Str(<<"a">>)>>)
    /\ partial_string = <<DQ, "a", NL>>

====
